---------------------------- MODULE Spec2Model ----------------------------
(***************************************************************************)
(* Model of the projection framework of DIPlib (src/math/projection.cpp):  *)
(* the ProjectionScan controller, the reducers (ProjectionMean,            *)
(* ProjectionMaximum, ...) and the public entry points (Sum, Mean,         *)
(* Maximum, Minimum, Percentile, Variance, StandardDeviation).             *)
(*                                                                         *)
(* A sample is a pair <<num, den>>: an exact rational in lowest terms with *)
(* den > 0. <<0, 0>> stands for NaN, <<1, 0>> for +infinity.               *)
(* An image is a record: forged flag, sizes, strides, tensor elements,     *)
(* tensor stride, data type and the data block (a sequence of samples; the *)
(* sample at memory offset o is data[o + 1]).                              *)
(***************************************************************************)
EXTENDS Integers, Sequences, FiniteSets

VARIABLES
   call,    \* the arguments of the entry point being executed
   scan,    \* the activation record of the call: pc, error, c_out, locals of ProjectionScan
   red      \* a reducer applied directly to one block (specification SpecReduce)

vars == << call, scan, red >>

\* Bounds of the input space
MaxDims == 3
MaxSize == 2
MaxTensor == 2
MaxPixels == 8
MaxBlock == 3

-----------------------------------------------------------------------------
(* Samples *)

Abs(n) == IF n < 0 THEN -n ELSE n

RECURSIVE Gcd(_, _)
Gcd(a, b) == IF b = 0 THEN a ELSE Gcd(b, a % b)

Sample(n, d) == LET g == Gcd(Abs(n), d) IN << n \div g, d \div g >>

Q(n) == << n, 1 >>
Zero == Q(0)
One == Q(1)
NaN == << 0, 0 >>
Inf == << 1, 0 >>

QAdd(a, b) == Sample(a[1] * b[2] + b[1] * a[2], a[2] * b[2])
QSub(a, b) == Sample(a[1] * b[2] - b[1] * a[2], a[2] * b[2])
QDivN(a, n) == Sample(a[1], a[2] * n)
QMul(a, b) == Sample(a[1] * b[1], a[2] * b[2])
QLess(a, b) == a[1] * b[2] < b[1] * a[2]

\* std::sqrt of a non-negative sample, rounded down to a multiple of 1/16:
\* exact for 0, 1/4, 1, ...; a floating-point root is a rounded value too
QSqrt(a) ==
   LET x == (a[1] * 256) \div a[2]
       r == CHOOSE k \in 0..(x + 1) : k * k <= x /\ (k + 1) * (k + 1) > x
   IN Sample(r, 16)
QMax(a, b) == IF QLess(a, b) THEN b ELSE a       \* std::max( a, b )
QMin(a, b) == IF QLess(b, a) THEN b ELSE a       \* std::min( a, b )

-----------------------------------------------------------------------------
(* Arrays *)

RECURSIVE Prod(_)
Prod(s) == IF s = << >> THEN 1 ELSE s[1] * Prod(Tail(s))

\* BooleanArray::any, BooleanArray::all
any(b) == \E i \in 1..Len(b) : b[i]
all(b) == \A i \in 1..Len(b) : b[i]

Front(s) == SubSeq(s, 1, Len(s) - 1)

\* DimensionArray::insert( 0, v )
Insert0(s, v) == << v >> \o s

\* The entries of arr at the indices i in 1..n where sizes[i] > 1, in order.
RECURSIVE KeepNonSingleton(_, _, _)
KeepNonSingleton(arr, sizes, n) ==
   IF n = 0 THEN << >>
   ELSE LET rest == KeepNonSingleton(arr, sizes, n - 1)
        IN IF sizes[n] > 1 THEN Append(rest, arr[n]) ELSE rest

-----------------------------------------------------------------------------
(* The array abstraction *)

\* Strides of a freshly forged image: tensor elements are contiguous, then
\* dimension 0, 1, ...
RECURSIVE NormalStrides(_, _)
NormalStrides(sizes, first) ==
   IF sizes = << >> THEN << >>
   ELSE << first >> \o NormalStrides(Tail(sizes), first * sizes[1])

RawImage ==
   [ forged |-> FALSE, sizes |-> << >>, strides |-> << >>, tensor |-> 1,
     tstride |-> 1, dtype |-> "SFLOAT", data |-> << >> ]

NewImage(sizes, tensor, dtype, data) ==
   [ forged |-> TRUE, sizes |-> sizes, strides |-> NormalStrides(sizes, tensor),
     tensor |-> tensor, tstride |-> 1, dtype |-> dtype, data |-> data ]

NumberOfSamples(img) == Prod(img.sizes) * img.tensor

\* Image::QuickCopy: a header that shares the data block
QuickCopy(img) == img

\* Image::TensorToSpatial( 0 )
TensorToSpatial(img) ==
   [ img EXCEPT !.sizes = Insert0(img.sizes, img.tensor),
                !.strides = Insert0(img.strides, img.tstride),
                !.tensor = 1 ]

\* A view: origin offset, sizes and strides into some data block
View(origin, sizes, strides) ==
   [ forged |-> TRUE, origin |-> origin, sizes |-> sizes, strides |-> strides ]
RawView == [ forged |-> FALSE, origin |-> 0, sizes |-> << >>, strides |-> << >> ]

\* Image::Squeeze: drop the dimensions of size 1
Squeeze(v) ==
   [ v EXCEPT !.sizes = KeepNonSingleton(v.sizes, v.sizes, Len(v.sizes)),
              !.strides = KeepNonSingleton(v.strides, v.sizes, Len(v.sizes)) ]

\* The offsets an image iterator visits, dimension 0 fastest
RECURSIVE ViewOffsets(_, _, _)
ViewOffsets(origin, sizes, strides) ==
   IF sizes = << >> THEN << origin >>
   ELSE LET n == Len(sizes)
            Line[k \in 0..sizes[n]] ==
               IF k = 0 THEN << >>
               ELSE Line[k - 1] \o ViewOffsets(origin + (k - 1) * strides[n],
                                                Front(sizes), Front(strides))
        IN Line[sizes[n]]

ViewSamples(v, data) ==
   LET offs == ViewOffsets(v.origin, v.sizes, v.strides)
   IN [ k \in 1..Len(offs) |-> data[offs[k] + 1] ]

\* Image::IsSingletonExpansionPossible
IsSingletonExpansionPossible(sizes, target) ==
   /\ Len(sizes) <= Len(target)
   /\ \A i \in 1..Len(sizes) : sizes[i] = target[i] \/ sizes[i] = 1

\* Image::CheckIsMask( sizes, DO_ALLOW, DO_THROW ): the error raised, "" if none
CheckIsMask(mask, inSizes) ==
   IF ~mask.forged THEN "IMAGE_NOT_FORGED"
   ELSE IF mask.tensor # 1 THEN "MASK_NOT_SCALAR"
   ELSE IF mask.dtype # "BIN" THEN "MASK_NOT_BINARY"
   ELSE IF ~IsSingletonExpansionPossible(mask.sizes, inSizes) THEN "MASK_SIZES_DONT_MATCH"
   ELSE ""

\* Image::ExpandSingletonDimensions( sizes ): expanded dimensions get stride 0
ExpandSingletonDimensions(mask, inSizes) ==
   [ mask EXCEPT
        !.sizes = inSizes,
        !.strides = [ i \in 1..Len(inSizes) |->
                         IF i <= Len(mask.sizes) /\ mask.sizes[i] = inSizes[i]
                         THEN mask.strides[i] ELSE 0 ] ]

\* Image::ReForge( sizes, tensorElems, dt, DO_ALLOW ) followed by ReshapeTensor:
\* an image that already has these properties keeps its data block, any other
\* is stripped and forged anew; the new block holds `fresh` in every sample.
ReForgeKeeps(out, sizes, tensor, dt) ==
   out.forged /\ out.sizes = sizes /\ out.tensor = tensor /\ out.dtype = dt

ReForge(out, sizes, tensor, dt, fresh) ==
   IF ReForgeKeeps(out, sizes, tensor, dt) THEN out
   ELSE NewImage(sizes, tensor, dt, [ k \in 1..(Prod(sizes) * tensor) |-> fresh ])

\* DataType::SuggestFlex, DataType::SuggestFloat
SuggestFlex(dt) == IF dt = "SCOMPLEX" THEN "SCOMPLEX" ELSE "SFLOAT"
SuggestFloat(dt) == "SFLOAT"

-----------------------------------------------------------------------------
(* The reducers: ProjectionScanFunction::Project.                           *)
(* vals are the samples of the input view in iteration order, sel those of  *)
(* the mask view (when the mask view is forged).                            *)

\* The samples of vals at which the mask is set
RECURSIVE Selected(_, _)
Selected(vals, sel) ==
   IF vals = << >> THEN << >>
   ELSE IF sel[1] # Zero THEN << vals[1] >> \o Selected(Tail(vals), Tail(sel))
        ELSE Selected(Tail(vals), Tail(sel))

RECURSIVE SumSeq(_)
SumSeq(vals) == IF vals = << >> THEN Zero ELSE QAdd(vals[1], SumSeq(Tail(vals)))

RECURSIVE MaxSeq(_, _)
MaxSeq(max, vals) == IF vals = << >> THEN max ELSE MaxSeq(QMax(max, vals[1]), Tail(vals))

RECURSIVE MinSeq(_, _)
MinSeq(min, vals) == IF vals = << >> THEN min ELSE MinSeq(QMin(min, vals[1]), Tail(vals))

\* std::numeric_limits< TPI >::lowest() and ::max()
Lowest(dtype) ==
   CASE dtype = "UINT8" -> Q(0) [] dtype = "SINT8" -> Q(-128) [] dtype = "BIN" -> Q(0)
Highest(dtype) ==
   CASE dtype = "UINT8" -> Q(255) [] dtype = "SINT8" -> Q(127) [] dtype = "BIN" -> Q(1)

\* ProjectionMean< TPI >::Project
ProjectionMeanProject(computeMean, vals, maskForged, sel) ==
   LET picked == IF maskForged THEN Selected(vals, sel) ELSE vals
       sum == SumSeq(picked)
       n == IF maskForged THEN Len(picked) ELSE Len(vals)
   IN IF computeMean /\ n > 0 THEN QDivN(sum, n) ELSE sum

\* AngleToVector: ( cos v, sin v ), exact for the angle 0
AngleToVector(v) == CASE v = Zero -> << One, Zero >>

RECURSIVE VectorSum(_)
VectorSum(vals) ==
   IF vals = << >> THEN << Zero, Zero >>
   ELSE LET u == AngleToVector(vals[1])
            r == VectorSum(Tail(vals))
        IN << QAdd(u[1], r[1]), QAdd(u[2], r[2]) >>

\* std::arg and std::abs of a complex number on the non-negative real axis
Arg(c) == CASE c[2] = Zero /\ ~QLess(c[1], Zero) -> Zero
CAbs(c) == CASE c[2] = Zero -> IF QLess(c[1], Zero) THEN QSub(Zero, c[1]) ELSE c[1]

\* std::sqrt( -2.0 * std::log( R )) for R >= 0: log 1 = 0, log R > 0 for R > 1
\* (the square root of a negative number is NaN), log 0 = -infinity
SqrtMinus2Log(R) ==
   CASE R = One -> Zero
     [] QLess(One, R) -> NaN
     [] R = Zero -> Inf

\* ProjectionMeanDirectional< TPI >::Project
ProjectionMeanDirectionalProject(vals, maskForged, sel) ==
   LET picked == IF maskForged THEN Selected(vals, sel) ELSE vals
   IN Arg(VectorSum(picked))

\* ProjectionVarianceDirectional< TPI >::Project
ProjectionVarianceDirectionalProject(computeStD, vals, maskForged, sel) ==
   LET picked == IF maskForged THEN Selected(vals, sel) ELSE vals
       sum == VectorSum(picked)
       n == IF maskForged THEN Len(picked) ELSE Len(vals)
       R == CAbs(sum)
   IN IF computeStD THEN SqrtMinus2Log(R) ELSE QSub(One, R)

\* VarianceAccumulator after Push of every sample of vals: the number of
\* samples n, their mean m1 and the sum of squared deviations m2
RECURSIVE SumSquaresSeq(_)
SumSquaresSeq(vals) ==
   IF vals = << >> THEN Zero ELSE QAdd(QMul(vals[1], vals[1]), SumSquaresSeq(Tail(vals)))

VarianceAccumulator(vals) ==
   LET n == Len(vals)
       sum == SumSeq(vals)
   IN [ n |-> n,
        m1 |-> IF n > 0 THEN QDivN(sum, n) ELSE Zero,
        m2 |-> IF n > 0 THEN QSub(SumSquaresSeq(vals), QDivN(QMul(sum, sum), n)) ELSE Zero ]

\* VarianceAccumulator::Variance, ::StandardDeviation
AccVariance(acc) == IF acc.n > 1 THEN QDivN(acc.m2, acc.n - 1) ELSE Zero
AccStandardDeviation(acc) == QSqrt(AccVariance(acc))

\* ProjectionVariance< TPI >::Project
ProjectionVarianceProject(computeStD, vals, maskForged, sel) ==
   LET picked == IF maskForged THEN Selected(vals, sel) ELSE vals
       acc == VarianceAccumulator(picked)
   IN IF computeStD THEN AccStandardDeviation(acc) ELSE AccVariance(acc)

\* ProjectionMaximum with the running maximum seeded at 0
ProjectionMaximumSeedZero(dtype, vals, maskForged, sel) ==
   LET picked == IF maskForged THEN Selected(vals, sel) ELSE vals
   IN MaxSeq(Zero, picked)

\* ProjectionMaximum< TPI >::Project
ProjectionMaximumProject(dtype, vals, maskForged, sel) ==
   LET picked == IF maskForged THEN Selected(vals, sel) ELSE vals
   IN MaxSeq(Lowest(dtype), picked)

\* ProjectionMinimum< TPI >::Project
ProjectionMinimumProject(dtype, vals, maskForged, sel) ==
   LET picked == IF maskForged THEN Selected(vals, sel) ELSE vals
   IN MinSeq(Highest(dtype), picked)

NoFunction == [ kind |-> "", flag |-> FALSE ]
Function(kind, flag) == [ kind |-> kind, flag |-> flag ]

\* function.Project( in, mask, out ): the sample stored through `out`
Project(function, dtype, in, inData, mask, maskData) ==
   LET vals == ViewSamples(in, inData)
       sel == IF mask.forged THEN ViewSamples(mask, maskData) ELSE << >>
   IN CASE function.kind = "ProjectionMean" ->
              ProjectionMeanProject(function.flag, vals, mask.forged, sel)
        [] function.kind = "ProjectionMeanDirectional" ->
              ProjectionMeanDirectionalProject(vals, mask.forged, sel)
        [] function.kind = "ProjectionVariance" ->
              ProjectionVarianceProject(function.flag, vals, mask.forged, sel)
        [] function.kind = "ProjectionVarianceDirectional" ->
              ProjectionVarianceDirectionalProject(function.flag, vals, mask.forged, sel)
        [] function.kind = "ProjectionMaximum" ->
              ProjectionMaximumProject(dtype, vals, mask.forged, sel)
        [] function.kind = "ProjectionMinimum" ->
              ProjectionMinimumProject(dtype, vals, mask.forged, sel)

-----------------------------------------------------------------------------
(* ProjectionScan *)

NoScan ==
   [ pc |-> "idle", error |-> "", c_out |-> RawImage, allocated |-> FALSE,
     function |-> NoFunction, outImageType |-> "", input |-> RawImage,
     mask |-> RawImage, hasMask |-> FALSE, process |-> << >>, outSizes |-> << >>,
     inStride |-> << >>, maskStride |-> << >>, outStride |-> << >>, nDims |-> 0,
     position |-> << >>, dd |-> 0, tempIn |-> RawView, tempMask |-> RawView,
     tempOut |-> RawView, useOutputBuffer |-> FALSE, nProject |-> 0,
     written |-> << >> ]

\* An exception leaves the function: the caller's output is what it is then
Thrown(c_out, e) == [ NoScan EXCEPT !.pc = "error", !.error = e, !.c_out = c_out ]

\* Lines 45-51: an empty process array means all dimensions
ProcessLengthOk(process, nDims) == process = << >> \/ Len(process) = nDims
ExpandProcess(process, nDims) ==
   IF process = << >> THEN [ i \in 1..nDims |-> TRUE ] ELSE process

\* Line 66: `mask = mask.QuickCopy()` copies the default-constructed local
LocalMask(c_mask) == QuickCopy(RawImage)

\* The output sizes with the two branches of lines 81-85 exchanged
OutSizesExchanged(process, inSizes) ==
   [ i \in 1..Len(inSizes) |-> IF process[i] THEN inSizes[i] ELSE 1 ]

\* The processing sizes with line 76 initialising to singletons
ProcSizesSingleton(process, inSizes) == [ i \in 1..Len(inSizes) |-> 1 ]

\* Lines 74-86
NormalizeProcess(process, inSizes) ==
   [ i \in 1..Len(inSizes) |-> process[i] /\ inSizes[i] # 1 ]
OutSizes(process, inSizes) ==
   [ i \in 1..Len(inSizes) |-> IF process[i] THEN 1 ELSE inSizes[i] ]
ProcSizes(process, inSizes) ==
   [ i \in 1..Len(inSizes) |-> IF process[i] THEN inSizes[i] ELSE 1 ]

\* CopyBuffer of one sample into a sample of type `to`
CopyBuffer(v, to) ==
   IF to \in { "UINT8", "SINT8", "BIN" }
   THEN LET r == (2 * v[1] + v[2]) \div (2 * v[2])
        IN QMin(QMax(Q(r), Lowest(to)), Highest(to))
   ELSE v

\* Lines 207-231: the odometer step, from dimension dd (0-based) on; on
\* return f.dd is the dimension at which the for loop was left
RECURSIVE NextPixel(_, _)
NextPixel(f, dd) ==
   IF dd >= f.nDims THEN [ f EXCEPT !.dd = dd ]
   ELSE LET i == dd + 1
            p == f.position[i] + 1
            g == [ f EXCEPT
                     !.position[i] = p,
                     !.tempIn.origin = @ + f.inStride[i],
                     !.tempMask.origin = IF f.hasMask THEN @ + f.maskStride[i] ELSE @,
                     !.tempOut.origin = @ + f.outStride[i] ]
        IN IF p # f.outSizes[i] THEN [ g EXCEPT !.dd = dd ]
           ELSE NextPixel([ g EXCEPT
                               !.tempIn.origin = @ - f.inStride[i] * p,
                               !.tempMask.origin =
                                  IF f.hasMask THEN @ - f.maskStride[i] * p ELSE @,
                               !.tempOut.origin = @ - f.outStride[i] * p,
                               !.position[i] = 0 ],
                          dd + 1)

\* The sample function.Project leaves at the output origin `at`
Projected(f, in, mask, useBuffer) ==
   LET v == Project(f.function, f.input.dtype, in, f.input.data, mask, f.mask.data)
   IN IF useBuffer THEN CopyBuffer(v, f.c_out.dtype) ELSE v

\* Lines 195-232: one iteration of the for( ;; ) loop
LoopBody(f) ==
   LET v == Projected(f, f.tempIn, f.tempMask, f.useOutputBuffer)
       g == NextPixel([ f EXCEPT !.c_out.data[f.tempOut.origin + 1] = v,
                                 !.nProject = @ + 1,
                                 !.written = Append(@, f.tempOut.origin) ], 0)
   IN [ g EXCEPT !.pc = IF g.dd = g.nDims THEN "done" ELSE "loop" ]

\* Lines 74-191: from the output sizes to the first iteration of the loop
ScanBody(c_in, mask0, hasMask, c_out, outImageType, process0, function, fresh) ==
   LET inSizes == c_in.sizes
       nDims == Len(inSizes)
       process1 == NormalizeProcess(process0, inSizes)
       outSizes1 == OutSizes(process1, inSizes)
       procSizes1 == ProcSizes(process1, inSizes)
   IN IF ~any(process1)
      THEN [ NoScan EXCEPT !.pc = "done", !.c_out = c_in ]   \* line 91, ignores the mask
      ELSE
      LET out1 == ReForge(c_out, outSizes1, c_in.tensor, outImageType, fresh)
          tens == c_in.tensor > 1
          input == IF tens THEN TensorToSpatial(c_in) ELSE c_in
          mask == IF tens /\ hasMask THEN TensorToSpatial(mask0) ELSE mask0
          output == IF tens THEN TensorToSpatial(out1) ELSE out1
          process == IF tens THEN Insert0(process1, FALSE) ELSE process1
          outSizes == IF tens THEN output.sizes ELSE outSizes1
          procSizes == IF tens THEN Insert0(procSizes1, 1) ELSE procSizes1
          f0 == [ NoScan EXCEPT
                    !.c_out = out1,
                    !.allocated = ~ReForgeKeeps(c_out, outSizes1, c_in.tensor, outImageType),
                    !.function = function, !.outImageType = outImageType,
                    !.input = input, !.mask = mask, !.hasMask = hasMask,
                    !.process = process ]
      IN IF all(process)
         THEN \* lines 120-132: no need to loop
              LET whole == View(0, input.sizes, input.strides)
                  wholeMask == IF mask.forged THEN View(0, mask.sizes, mask.strides)
                               ELSE RawView
                  v == Projected(f0, whole, wholeMask, output.dtype # outImageType)
              IN [ f0 EXCEPT !.pc = "done", !.c_out.data[1] = v, !.nProject = 1,
                             !.written = << 0 >> ]
         ELSE \* lines 141-194
              LET tempIn == Squeeze(View(0, procSizes, input.strides))
                  tempMask == IF hasMask THEN Squeeze(View(0, procSizes, mask.strides))
                              ELSE RawView
                  maskStride0 == IF hasMask THEN mask.strides
                                 ELSE [ i \in 1..nDims |-> 0 ]
                  \* lines 166-180: the loop runs over ii < nDims, the input's
                  \* dimensionality as read on line 43
                  inStride == KeepNonSingleton(input.strides, outSizes, nDims)
                  maskStride == KeepNonSingleton(maskStride0, outSizes, nDims)
                  outStride == KeepNonSingleton(output.strides, outSizes, nDims)
                  outSizesC == KeepNonSingleton(outSizes, outSizes, nDims)
                  jj == Len(outSizesC)
              IN [ f0 EXCEPT !.pc = "loop", !.tempIn = tempIn, !.tempMask = tempMask,
                             !.tempOut = View(0, outSizesC, << >>),
                             !.inStride = inStride, !.maskStride = maskStride,
                             !.outStride = outStride, !.outSizes = outSizesC,
                             !.nDims = jj,
                             !.useOutputBuffer = (output.dtype # outImageType),
                             !.position = [ i \in 1..jj |-> 0 ] ]

\* ProjectionScan with the output adjusted before the mask is checked
ProjectionScanAdjustFirst(c_in, c_mask, c_out, outImageType, process, function, fresh) ==
   LET inSizes == c_in.sizes
       nDims == Len(inSizes)
       adjusted == ReForge(c_out, inSizes, c_in.tensor, outImageType, fresh)
   IN IF ~ProcessLengthOk(process, nDims)
      THEN Thrown(c_out, "ARRAY_PARAMETER_WRONG_LENGTH")
      ELSE IF c_mask.forged /\ CheckIsMask(LocalMask(c_mask), inSizes) # ""
      THEN Thrown(adjusted, CheckIsMask(LocalMask(c_mask), inSizes))
      ELSE ScanBody(c_in, RawImage, FALSE, c_out, outImageType,
                    ExpandProcess(process, nDims), function, fresh)

\* Lines 34-72: argument checks, then the body
ProjectionScan(c_in, c_mask, c_out, outImageType, process, function, fresh) ==
   LET inSizes == c_in.sizes
       nDims == Len(inSizes)
   IN IF ~ProcessLengthOk(process, nDims)
      THEN Thrown(c_out, "ARRAY_PARAMETER_WRONG_LENGTH")
      ELSE IF c_mask.forged
      THEN LET mask == LocalMask(c_mask)
               e == CheckIsMask(mask, inSizes)
           IN IF e # "" THEN Thrown(c_out, e)
              ELSE ScanBody(c_in, ExpandSingletonDimensions(mask, inSizes), TRUE, c_out,
                            outImageType, ExpandProcess(process, nDims), function, fresh)
      ELSE ScanBody(c_in, RawImage, FALSE, c_out, outImageType,
                    ExpandProcess(process, nDims), function, fresh)

\* The activation record when the call has returned or thrown
RECURSIVE RunToEnd(_)
RunToEnd(f) == IF f.pc = "loop" THEN RunToEnd(LoopBody(f)) ELSE f

-----------------------------------------------------------------------------
(* The public entry points *)

\* The DIP_OVL_NEW_* macros: the data types for which the reducer is instantiated
OvlAll(dt) == TRUE
OvlFloat(dt) == dt = "SFLOAT"
OvlNonComplex(dt) == dt # "SCOMPLEX"

\* lineFilter after a DIP_OVL_NEW_* macro; NoFunction when the macro throws
OvlNew(kind, flag, supported) == IF supported THEN Function(kind, flag) ELSE NoFunction

Scan(in, mask, out, outImageType, process, lineFilter, fresh) ==
   IF lineFilter = NoFunction THEN Thrown(out, "DATA_TYPE_NOT_SUPPORTED")
   ELSE ProjectionScan(in, mask, out, outImageType, process, lineFilter, fresh)

DoMean(in, mask, out, mode, process, fresh) ==
   LET lineFilter ==
          IF mode = "directional"
          THEN OvlNew("ProjectionMeanDirectional", FALSE, OvlFloat(in.dtype))
          ELSE OvlNew("ProjectionMean", TRUE, OvlAll(in.dtype))
   IN Scan(in, mask, out, SuggestFlex(in.dtype), process, lineFilter, fresh)

DoSum(in, mask, out, process, fresh) ==
   LET lineFilter == OvlNew("ProjectionMean", FALSE, OvlAll(in.dtype))
   IN Scan(in, mask, out, SuggestFlex(in.dtype), process, lineFilter, fresh)

DoVariance(in, mask, out, mode, process, fresh) ==
   LET lineFilter ==
          IF mode = "directional"
          THEN OvlNew("ProjectionVarianceDirectional", FALSE, OvlFloat(in.dtype))
          ELSE OvlNew("ProjectionVariance", FALSE, OvlNonComplex(in.dtype))
   IN Scan(in, mask, out, SuggestFloat(in.dtype), process, lineFilter, fresh)

DoStandardDeviation(in, mask, out, mode, process, fresh) ==
   LET lineFilter ==
          IF mode = "directional"
          THEN OvlNew("ProjectionVarianceDirectional", TRUE, OvlFloat(in.dtype))
          ELSE OvlNew("ProjectionVariance", TRUE, OvlNonComplex(in.dtype))
   IN Scan(in, mask, out, SuggestFloat(in.dtype), process, lineFilter, fresh)

DoMaximum(in, mask, out, process, fresh) ==
   LET lineFilter == OvlNew("ProjectionMaximum", FALSE, OvlNonComplex(in.dtype))
   IN Scan(in, mask, out, in.dtype, process, lineFilter, fresh)

DoMinimum(in, mask, out, process, fresh) ==
   LET lineFilter == OvlNew("ProjectionMinimum", FALSE, OvlNonComplex(in.dtype))
   IN Scan(in, mask, out, in.dtype, process, lineFilter, fresh)

\* Percentile with the two delegations exchanged
DoPercentileExchanged(in, mask, out, percentile, process, fresh) ==
   IF percentile = 0 THEN DoMaximum(in, mask, out, process, fresh)
   ELSE IF percentile = 100 THEN DoMinimum(in, mask, out, process, fresh)
   ELSE [ NoScan EXCEPT !.pc = "done", !.c_out = out ]

\* Percentile with every other percentile handled as the maximum
DoPercentileElseMaximum(in, mask, out, percentile, process, fresh) ==
   IF percentile = 0 THEN DoMinimum(in, mask, out, process, fresh)
   ELSE DoMaximum(in, mask, out, process, fresh)

DoPercentile(in, mask, out, percentile, process, fresh) ==
   IF percentile = 0 THEN DoMinimum(in, mask, out, process, fresh)
   ELSE IF percentile = 100 THEN DoMaximum(in, mask, out, process, fresh)
   ELSE [ NoScan EXCEPT !.pc = "done", !.c_out = out ]

-----------------------------------------------------------------------------
(* The inputs *)

Shapes == { s \in UNION { [ 1..n -> 1..MaxSize ] : n \in 0..MaxDims } : Prod(s) <= MaxPixels }

\* Sample k (1-based) of an image of e samples with t tensor elements
PatternSample(pat, k, e, t) ==
   CASE pat = "ones" -> One
     [] pat = "zeros" -> Zero
     [] pat = "ramp" -> Q(k - 1)
     [] pat = "rev" -> Q(e - k)
     [] pat = "hot" -> IF k <= t THEN Q(k + 1) ELSE One
     [] pat = "bits" -> IF ((k - 1) \div t) % 2 = 0 THEN One ELSE Zero

Pattern(pat, sizes, t) ==
   [ k \in 1..(Prod(sizes) * t) |-> PatternSample(pat, k, Prod(sizes) * t, t) ]

IntegerImages ==
   { NewImage(s, t, "UINT8", Pattern(pat, s, t)) :
        s \in Shapes, t \in 1..MaxTensor, pat \in { "ones", "ramp", "rev", "hot" } }
AngleImages ==
   { NewImage(s, t, "SFLOAT", Pattern("zeros", s, t)) : s \in Shapes, t \in 1..MaxTensor }
ComplexImages ==
   { NewImage(s, t, "SCOMPLEX", Pattern("ones", s, t)) : s \in Shapes, t \in 1..MaxTensor }
BinaryImages ==
   { NewImage(s, t, "BIN", Pattern(pat, s, t)) :
        s \in Shapes, t \in 1..MaxTensor, pat \in { "ones", "bits" } }
\* The inputs of Variance and StandardDeviation in each mode
DispersionImages(mode) ==
   IF mode = "directional" THEN AngleImages \cup ComplexImages
   ELSE BinaryImages \cup ComplexImages
Images == IntegerImages \cup AngleImages \cup ComplexImages

\* Sizes no singleton expansion can turn into the input's
OtherSizes(sizes) ==
   IF sizes = << >> THEN << 2 >> ELSE [ sizes EXCEPT ![1] = @ + 1 ]

Masks(in) ==
   { RawImage,
     NewImage(in.sizes, 1, "BIN",
              [ k \in 1..Prod(in.sizes) |-> IF k = 1 THEN Zero ELSE One ]),
     NewImage(OtherSizes(in.sizes), 1, "BIN",
              [ k \in 1..Prod(OtherSizes(in.sizes)) |-> One ]) }

Selectors(in) ==
   { << >> } \cup [ 1..Len(in.sizes) -> BOOLEAN ]
      \cup { [ i \in 1..(Len(in.sizes) + 1) |-> TRUE ] }

\* The sizes the projection gives the output
ProjectedSizes(in, process) ==
   IF ProcessLengthOk(process, Len(in.sizes))
   THEN OutSizes(NormalizeProcess(ExpandProcess(process, Len(in.sizes)), in.sizes),
                 in.sizes)
   ELSE in.sizes

\* The caller's output image: raw, or forged with the sizes of the result
Outs(in, process) ==
   { RawImage,
     NewImage(ProjectedSizes(in, process), in.tensor, in.dtype,
              [ k \in 1..(Prod(ProjectedSizes(in, process)) * in.tensor) |-> Q(7) ]) }

\* What a newly allocated data block may hold
Garbage == { Q(0), Q(9) }

Percentiles == { -1, 0, 50, 100, 101 }

-----------------------------------------------------------------------------
(* The state machine *)

NoCall ==
   [ entry |-> "", mode |-> "", percentile |-> 0, c_in |-> RawImage,
     c_mask |-> RawImage, c_out |-> RawImage, process |-> << >>, fresh |-> Zero ]

NoRed ==
   [ kind |-> "", dtype |-> "", vals |-> << >>, maskForged |-> FALSE, sel |-> << >>,
     out |-> Zero ]

Init == call = NoCall /\ scan = NoScan /\ red = NoRed

\* The entry point runs up to the first iteration of the loop, or to its end
Enter(entry, mode, percentile, in, mask, out, process, fresh, f) ==
   /\ scan' = f
   /\ call' = [ entry |-> entry, mode |-> mode, percentile |-> percentile,
                c_in |-> in, c_mask |-> mask, c_out |-> out, process |-> process,
                fresh |-> IF f.allocated THEN fresh ELSE Zero ]
   /\ UNCHANGED red

Sum ==
   /\ scan.pc = "idle"
   /\ \E in \in Images : \E mask \in Masks(in), process \in Selectors(in), fresh \in Garbage :
         \E out \in Outs(in, process) :
            Enter("Sum", "", 0, in, mask, out, process, fresh,
                  DoSum(in, mask, out, process, fresh))

Mean ==
   /\ scan.pc = "idle"
   /\ \E in \in Images, mode \in { "", "directional" } :
         \E mask \in Masks(in), process \in Selectors(in), fresh \in Garbage :
            \E out \in Outs(in, process) :
               Enter("Mean", mode, 0, in, mask, out, process, fresh,
                     DoMean(in, mask, out, mode, process, fresh))

Variance ==
   /\ scan.pc = "idle"
   /\ \E mode \in { "", "directional" } : \E in \in DispersionImages(mode) :
         \E mask \in Masks(in), process \in Selectors(in), fresh \in Garbage :
            \E out \in Outs(in, process) :
               Enter("Variance", mode, 0, in, mask, out, process, fresh,
                     DoVariance(in, mask, out, mode, process, fresh))

StandardDeviation ==
   /\ scan.pc = "idle"
   /\ \E mode \in { "", "directional" } : \E in \in DispersionImages(mode) :
         \E mask \in Masks(in), process \in Selectors(in), fresh \in Garbage :
            \E out \in Outs(in, process) :
               Enter("StandardDeviation", mode, 0, in, mask, out, process, fresh,
                     DoStandardDeviation(in, mask, out, mode, process, fresh))

Maximum ==
   /\ scan.pc = "idle"
   /\ \E in \in IntegerImages \cup ComplexImages :
         \E mask \in Masks(in), process \in Selectors(in), fresh \in Garbage :
            \E out \in Outs(in, process) :
               Enter("Maximum", "", 0, in, mask, out, process, fresh,
                     DoMaximum(in, mask, out, process, fresh))

Minimum ==
   /\ scan.pc = "idle"
   /\ \E in \in IntegerImages \cup ComplexImages :
         \E mask \in Masks(in), process \in Selectors(in), fresh \in Garbage :
            \E out \in Outs(in, process) :
               Enter("Minimum", "", 0, in, mask, out, process, fresh,
                     DoMinimum(in, mask, out, process, fresh))

Percentile ==
   /\ scan.pc = "idle"
   /\ \E in \in IntegerImages \cup ComplexImages, percentile \in Percentiles :
         \E mask \in Masks(in), process \in Selectors(in), fresh \in Garbage :
            \E out \in Outs(in, process) :
               Enter("Percentile", "", percentile, in, mask, out, process, fresh,
                     DoPercentile(in, mask, out, percentile, process, fresh))

\* One iteration of the loop of ProjectionScan
ScanStep ==
   /\ scan.pc = "loop"
   /\ scan' = LoopBody(scan)
   /\ UNCHANGED << call, red >>

\* The call has returned or thrown; the next call starts afresh
Return ==
   /\ scan.pc \in { "done", "error" }
   /\ scan' = NoScan
   /\ call' = NoCall
   /\ UNCHANGED red

Next ==
   \/ Sum \/ Mean \/ Variance \/ StandardDeviation
   \/ Maximum \/ Minimum \/ Percentile
   \/ ScanStep \/ Return

Spec == Init /\ [][Next]_vars

-----------------------------------------------------------------------------
(* Reducers applied to one block: the block is a one-dimensional image of   *)
(* MaxBlock samples at most, the mask a binary image of the same size.      *)

BlockValues(dtype) ==
   { Lowest(dtype), Q(-1), Q(3), Highest(dtype) } \ (IF dtype = "UINT8" THEN { Q(-1) } ELSE { })

RedInputs ==
   UNION { { [ kind |-> "", dtype |-> dt, vals |-> v, maskForged |-> FALSE,
               sel |-> << >>, out |-> Zero ] : v \in [ 1..n -> BlockValues(dt) ] }
           \cup
           { [ kind |-> "", dtype |-> dt, vals |-> v, maskForged |-> TRUE,
               sel |-> m, out |-> Zero ] :
                v \in [ 1..n -> BlockValues(dt) ], m \in [ 1..n -> { Zero, One } ] } :
           n \in 1..MaxBlock, dt \in { "UINT8", "SINT8" } }

InitReduce == call = NoCall /\ scan = NoScan /\ red \in RedInputs

\* The sample the loop of ProjectionScan stores for the block
Reduced(kind) ==
   LET n == Len(red.vals)
       f == [ NoScan EXCEPT
                !.function = Function(kind, FALSE),
                !.input = NewImage(<< n >>, 1, red.dtype, red.vals),
                !.mask = IF red.maskForged THEN NewImage(<< n >>, 1, "BIN", red.sel)
                         ELSE RawImage ]
   IN Projected(f, View(0, << n >>, << 1 >>),
                IF red.maskForged THEN View(0, << n >>, << 1 >>) ELSE RawView, FALSE)

ReduceMaximum ==
   /\ red.kind = ""
   /\ red' = [ red EXCEPT !.kind = "ProjectionMaximum", !.out = Reduced("ProjectionMaximum") ]
   /\ UNCHANGED << call, scan >>

ReduceMinimum ==
   /\ red.kind = ""
   /\ red' = [ red EXCEPT !.kind = "ProjectionMinimum", !.out = Reduced("ProjectionMinimum") ]
   /\ UNCHANGED << call, scan >>

NextReduce == ReduceMaximum \/ ReduceMinimum

SpecReduce == InitReduce /\ [][NextReduce]_vars

-----------------------------------------------------------------------------
(* Reference definitions, in terms of pixel coordinates *)

\* The coordinates of the pixels of an image of the given sizes
RECURSIVE Coords(_)
Coords(sizes) ==
   IF sizes = << >> THEN { << >> }
   ELSE { << k >> \o q : k \in 0..(sizes[1] - 1), q \in Coords(Tail(sizes)) }

RECURSIVE Dot(_, _)
Dot(q, strides) == IF q = << >> THEN 0 ELSE q[1] * strides[1] + Dot(Tail(q), Tail(strides))

\* Tensor element c of the pixel at coordinates q
SampleAt(img, q, c) == img.data[1 + c * img.tstride + Dot(q, img.strides)]

Channels(img) == 0..(img.tensor - 1)

\* Dimension i (1-based) of the input is asked to be collapsed, is collapsed
Requested(i) == call.process = << >> \/ call.process[i]
Collapsed(i) == Requested(i) /\ call.c_in.sizes[i] > 1
Dimensions == 1..Len(call.c_in.sizes)

\* The pixels of the input that project onto the output pixel p
BlockOf(p) ==
   { q \in Coords(call.c_in.sizes) : \A i \in Dimensions : ~Collapsed(i) => q[i] = p[i] }

\* The pixels of the block that a mask of the input's sizes selects
MaskedBlockOf(p) ==
   IF call.c_mask.forged
   THEN { q \in BlockOf(p) : SampleAt(call.c_mask, q, 0) # Zero }
   ELSE BlockOf(p)

BlockCount(p) == Cardinality(BlockOf(p))

InSamples(S, c) == { SampleAt(call.c_in, q, c) : q \in S }

SetMax(S) == CHOOSE m \in S : \A x \in S : ~QLess(m, x)
SetMin(S) == CHOOSE m \in S : \A x \in S : ~QLess(x, m)

RECURSIVE SumAt(_, _)
SumAt(S, c) ==
   IF S = { } THEN Zero
   ELSE LET q == CHOOSE x \in S : TRUE
        IN QAdd(SampleAt(call.c_in, q, c), SumAt(S \ { q }, c))

\* The call went through ProjectionScan with a process array of a valid length
TypeSupported ==
   IF call.mode = "directional" THEN call.c_in.dtype = "SFLOAT"
   ELSE IF call.entry \in { "Maximum", "Minimum", "Percentile", "Variance",
                             "StandardDeviation" }
        THEN call.c_in.dtype # "SCOMPLEX"
        ELSE TRUE
Scanned ==
   /\ call.entry # ""
   /\ ~(call.entry = "Percentile" /\ call.percentile \notin { 0, 100 })
   /\ TypeSupported
   /\ ProcessLengthOk(call.process, Len(call.c_in.sizes))
Returned == scan.pc = "done" /\ scan.error = ""
Ended == scan.pc \in { "done", "error" }
SomeCollapsed == \E i \in Dimensions : Collapsed(i)
AllRequested == \A i \in Dimensions : Requested(i)

-----------------------------------------------------------------------------
(* Properties *)

\* C1: Maximum without a mask, with some dimension of size > 1 left
\* uncollapsed, writes every output cell: the sample at output pixel p,
\* channel c, is the maximum of the channel-c samples of the input pixels
\* that agree with p on all non-collapsed dimensions.
C1_MaximumWritesEveryCell ==
   ( /\ call.entry = "Maximum" /\ Scanned /\ scan.pc = "done"
     /\ ~call.c_mask.forged
     /\ \E i \in Dimensions : call.c_in.sizes[i] > 1 /\ ~Collapsed(i) )
   => /\ scan.error = ""
      /\ \A p \in Coords(ProjectedSizes(call.c_in, call.process)) :
            \A c \in Channels(call.c_in) :
               SampleAt(scan.c_out, p, c) = SetMax(InSamples(BlockOf(p), c))

\* C2: once ProjectionScan has adjusted the output (some dimension being
\* collapsed), the output has the input's dimensionality, size 1 in every
\* collapsed dimension, the input's size in every other dimension, and the
\* input's tensor elements; a dimension of size 1 counts as not collapsed.
C2_OutputShape ==
   ( Scanned /\ scan.pc \in { "loop", "done" } /\ SomeCollapsed )
   => /\ scan.c_out.forged
      /\ Len(scan.c_out.sizes) = Len(call.c_in.sizes)
      /\ \A i \in Dimensions :
            scan.c_out.sizes[i] = IF Collapsed(i) THEN 1 ELSE call.c_in.sizes[i]
      /\ scan.c_out.tensor = call.c_in.tensor

C2_Witness ==
   /\ Scanned /\ scan.pc = "done" /\ call.c_in.tensor > 1
   /\ \E i, j, k \in Dimensions :
         /\ Collapsed(i)
         /\ Requested(j) /\ call.c_in.sizes[j] = 1
         /\ ~Requested(k) /\ call.c_in.sizes[k] > 1

\* C3: with a valid mask of the input's sizes and some dimension collapsed,
\* Sum succeeds and every output sample is the sum of the samples of its
\* block at which the mask is set; without a mask, of all samples of the block.
C3_SumHonoursMask ==
   ( /\ call.entry = "Sum" /\ Scanned /\ Ended /\ SomeCollapsed
     /\ call.c_mask.forged => call.c_mask.sizes = call.c_in.sizes )
   => /\ scan.error = ""
      /\ \A p \in Coords(ProjectedSizes(call.c_in, call.process)) :
            \A c \in Channels(call.c_in) :
               SampleAt(scan.c_out, p, c) = SumAt(MaskedBlockOf(p), c)

\* The samples of channel c of the input, all pixels, dimension 0 fastest
Flattened(c) ==
   ViewSamples(View(c * call.c_in.tstride, call.c_in.sizes, call.c_in.strides),
               call.c_in.data)

AllPixels == Coords(call.c_in.sizes)

\* The statistic of the entry point over all samples of channel c
Statistic(c) ==
   CASE call.entry = "Sum" -> SumAt(AllPixels, c)
     [] call.entry = "Mean" /\ call.mode = "" ->
           QDivN(SumAt(AllPixels, c), Cardinality(AllPixels))
     [] call.entry = "Mean" /\ call.mode = "directional" ->
           ProjectionMeanDirectionalProject(Flattened(c), FALSE, << >>)
     [] call.entry = "Variance" /\ call.mode = "directional" ->
           ProjectionVarianceDirectionalProject(FALSE, Flattened(c), FALSE, << >>)
     [] call.entry = "StandardDeviation" /\ call.mode = "directional" ->
           ProjectionVarianceDirectionalProject(TRUE, Flattened(c), FALSE, << >>)
     [] call.entry = "Variance" /\ call.mode = "" ->
           AccVariance(VarianceAccumulator(Flattened(c)))
     [] call.entry = "StandardDeviation" /\ call.mode = "" ->
           AccStandardDeviation(VarianceAccumulator(Flattened(c)))
     [] call.entry = "Maximum" \/ (call.entry = "Percentile" /\ call.percentile = 100) ->
           SetMax(InSamples(AllPixels, c))
     [] call.entry = "Minimum" \/ (call.entry = "Percentile" /\ call.percentile = 0) ->
           SetMin(InSamples(AllPixels, c))

Origin == [ i \in Dimensions |-> 0 ]

OneValuePerChannel ==
   /\ scan.nProject = call.c_in.tensor
   /\ \A c \in Channels(call.c_in) : SampleAt(scan.c_out, Origin, c) = Statistic(c)

C5_NothingSelectedReturnsInput ==
   ( Scanned /\ Ended /\ ~SomeCollapsed )
   => /\ scan.error = ""
      /\ scan.c_out = call.c_in
      /\ scan.nProject = 0

\* C6: when a projection call fails, the caller's output image is as it was
\* before the call.
C6_ErrorLeavesOutput == scan.pc = "error" => scan.c_out = call.c_out

C6_Witness ==
   /\ scan.pc = "error" /\ call.c_out.forged
   /\ call.c_mask.forged /\ call.c_mask.sizes # call.c_in.sizes
   /\ SomeCollapsed /\ Scanned

\* Two activation records with the same outcome for the caller
SameOutcome(f, g) == f.pc = g.pc /\ f.error = g.error /\ f.c_out = g.c_out

MinimumOutcome ==
   RunToEnd(DoMinimum(call.c_in, call.c_mask, call.c_out, call.process, call.fresh))
MaximumOutcome ==
   RunToEnd(DoMaximum(call.c_in, call.c_mask, call.c_out, call.process, call.fresh))

\* C7: Percentile with percentile 0 ends with the output, or the error, of
\* Minimum on the same arguments; with percentile 100, of Maximum.
C7_PercentileExtremes ==
   ( call.entry = "Percentile" /\ Ended )
   => /\ call.percentile = 0 => SameOutcome(scan, MinimumOutcome)
      /\ call.percentile = 100 => SameOutcome(scan, MaximumOutcome)

C7_Witness ==
   /\ call.entry = "Percentile" /\ call.percentile = 0 /\ Returned
   /\ SomeCollapsed /\ scan.nProject > 1
   /\ ~SameOutcome(scan, MaximumOutcome)

\* C8: the directional Variance and StandardDeviation of a block of identical
\* angles are both 0.
C8_DirectionalDispersionZero ==
   ( /\ call.entry \in { "Variance", "StandardDeviation" } /\ call.mode = "directional"
     /\ Scanned /\ Returned /\ SomeCollapsed
     /\ \A k \in 1..Len(call.c_in.data) : call.c_in.data[k] = Zero )
   => \A p \in Coords(ProjectedSizes(call.c_in, call.process)) :
         \A c \in Channels(call.c_in) : SampleAt(scan.c_out, p, c) = Zero

SumOutcome ==
   RunToEnd(DoSum(call.c_in, call.c_mask, call.c_out, call.process, call.fresh))

\* C9: at every output position whose block has count > 0 participating
\* samples, the output of Mean is the output of Sum divided by that count.
C9_MeanIsSumOverCount ==
   ( call.entry = "Mean" /\ call.mode = "" /\ Scanned /\ Returned )
   => \A p \in Coords(ProjectedSizes(call.c_in, call.process)) :
         \A c \in Channels(call.c_in) :
            Cardinality(MaskedBlockOf(p)) > 0
            => SampleAt(scan.c_out, p, c)
                  = QDivN(SampleAt(SumOutcome.c_out, p, c), Cardinality(MaskedBlockOf(p)))

\* The samples of the block under the mask
RedPicked ==
   { red.vals[k] : k \in { j \in 1..Len(red.vals) : ~red.maskForged \/ red.sel[j] # Zero } }

\* C10: the Maximum (Minimum) reducer returns the greatest (least) of the
\* samples the mask selects, one of them, and the type's lowest (highest)
\* value when the mask selects none; that is the sample the loop stores.
C10_Extremum ==
   /\ red.kind = "ProjectionMaximum"
      => IF RedPicked = { } THEN red.out = Lowest(red.dtype)
         ELSE red.out \in RedPicked /\ \A x \in RedPicked : ~QLess(red.out, x)
   /\ red.kind = "ProjectionMinimum"
      => IF RedPicked = { } THEN red.out = Highest(red.dtype)
         ELSE red.out \in RedPicked /\ \A x \in RedPicked : ~QLess(x, red.out)

C10_Witness ==
   /\ red.kind = "ProjectionMaximum" /\ red.dtype = "SINT8"
   /\ red.maskForged /\ RedPicked = { } /\ Len(red.vals) > 1
   /\ red.out = Q(-128)

\* C11: Variance and StandardDeviation in the non-directional mode on a binary
\* input select the Mean reducer (ProjectionMean), not the streaming variance
\* reducer.
C11_BinarySelectsMean ==
   ( /\ call.entry \in { "Variance", "StandardDeviation" } /\ call.mode # "directional"
     /\ call.c_in.dtype = "BIN" /\ scan.function # NoFunction )
   => scan.function.kind = "ProjectionMean"

\* The call is in, or has left, the loop of lines 193-232
GeneralPath ==
   scan.pc \in { "loop", "done" } /\ scan.function # NoFunction /\ ~all(scan.process)

\* The offsets of the output samples, channel axis included, in the order in
\* which dimension 0 varies fastest
OutputOrder ==
   LET output == IF scan.c_out.tensor > 1 THEN TensorToSpatial(scan.c_out) ELSE scan.c_out
   IN ViewOffsets(0, output.sizes, output.strides)

\* C12: the loop of ProjectionScan calls the reducer once for each position of
\* the compacted output shape (the product of the output sizes > 1, channel
\* axis included), never twice for a position, dimension 0 fastest, at most
\* that many times in all, and ends exactly when the carry leaves the last
\* compacted dimension, which is after the last position.
C12_OncePerPosition ==
   GeneralPath
   => /\ scan.nProject <= Len(OutputOrder)
      /\ scan.written = SubSeq(OutputOrder, 1, scan.nProject)
      /\ scan.pc = "done" <=> scan.nProject = Len(OutputOrder)
      /\ scan.nProject > 0 => ( scan.pc = "done" <=> scan.dd = scan.nDims )

\* The output as the loop sees it (channel axis first), and its dimensions of
\* size > 1
SpatialOutput ==
   IF scan.c_out.tensor > 1 THEN TensorToSpatial(scan.c_out) ELSE scan.c_out
NonSingleton(arr) == KeepNonSingleton(arr, SpatialOutput.sizes, Len(SpatialOutput.sizes))

\* C13: on the general path the compacted strides of input, mask and output
\* and the compacted output sizes have the length of the position vector and
\* describe every output dimension of size > 1, those after the channel axis
\* included; at every reducer invocation 0 <= position[d] < outSizes[d] and
\* each view's origin is the sum over d of position[d] times its stride; after
\* the last overflow every position is 0 and every shift undone.
C13_Lockstep ==
   GeneralPath
   => /\ Len(scan.position) = scan.nDims /\ Len(scan.outSizes) = scan.nDims
      /\ Len(scan.inStride) = scan.nDims /\ Len(scan.maskStride) = scan.nDims
      /\ Len(scan.outStride) = scan.nDims
      /\ scan.outSizes = NonSingleton(SpatialOutput.sizes)
      /\ scan.outStride = NonSingleton(SpatialOutput.strides)
      /\ scan.inStride = NonSingleton(scan.input.strides)
      /\ \A d \in 1..scan.nDims : 0 <= scan.position[d] /\ scan.position[d] < scan.outSizes[d]
      /\ scan.tempIn.origin = Dot(scan.position, scan.inStride)
      /\ scan.tempMask.origin = Dot(scan.position, scan.maskStride)
      /\ scan.tempOut.origin = Dot(scan.position, scan.outStride)
      /\ scan.pc = "done" => \A d \in 1..scan.nDims : scan.position[d] = 0

\* C14: Percentile with a percentile other than 0 and 100 returns normally,
\* checks no argument, calls no reducer and leaves the output image as it
\* was: forged state, sizes, type and samples, also when the process array
\* has the wrong length.
C14_PercentileElseNothing ==
   ( call.entry = "Percentile" /\ call.percentile \notin { 0, 100 } )
   => /\ scan.pc = "done" /\ scan.error = ""
      /\ scan.nProject = 0 /\ scan.function = NoFunction
      /\ scan.c_out = call.c_out

C14_Witness ==
   /\ call.entry = "Percentile" /\ call.percentile = 50 /\ scan.pc = "done"
   /\ ~ProcessLengthOk(call.process, Len(call.c_in.sizes))
   /\ call.c_mask.forged /\ call.c_mask.sizes # call.c_in.sizes
   /\ call.c_out.forged /\ scan.c_out.data = call.c_out.data
   /\ \E i \in Dimensions : call.c_in.sizes[i] > 1

=============================================================================
